---- MODULE Spec2Model ----
(***************************************************************************)
(* Model of cosmosdr's acquisition layer: the SignalStreamer object, the   *)
(* background signal_acquisition_loop threads it starts, get_sdr and the   *)
(* process-wide sdrStore, and the consumers of the published batch         *)
(* (get_current_signal callers and the dashboard's stream_signal).         *)
(*                                                                         *)
(* Threads interleave at the granularity of one access to shared state per *)
(* step; statements that touch only the thread's own, not yet shared       *)
(* device handle are folded into the next step that touches shared state.  *)
(* The radio driver is external: every driver call (open, configure,       *)
(* read_samples) may succeed or raise.                                     *)
(***************************************************************************)
EXTENDS Integers, Sequences, FiniteSets, TLC

(* ------------------------------ bounds --------------------------------- *)
\* number of acquisition threads that may be started in one behaviour
MaxThreads == 2
\* number of batch fills the acquisition loops may begin in one behaviour
MaxFills == 2
\* largest n_reads_per_acquisition passed to start_stream
MaxReads == 2
\* trim_iq_around_peak: longest magnitude array, largest magnitude, largest
\* n_either_side
MaxLen == 4
MaxVal == 2
MaxHalfWidth == 2
\* shift_to_optimal_phase: longest envelope, largest samples_per_us, largest
\* scaling factor
MaxPhaseLen == 5
MaxSpu == 3
MaxScale == 2
\* get_frequency_space_np: longest batch row
MaxRowLen == 3
\* stream_signal: largest magnitude in a batch; number of timer ticks
MaxMag == 4
MaxIntervals == 4
\* preprocess_iq: longest IQ capture
MaxIqLen == 2

(* ------------------------------ state ---------------------------------- *)
VARIABLES
    enabled,            \* SignalStreamer.enabled
    thread,             \* SignalStreamer.thread: 0 is None, else a thread id
    current_signal,     \* SignalStreamer.current_signal: an array id
    read_is_available,  \* SignalStreamer.read_is_available
    sdrStore,           \* sdrStore.sdr: 0 is None, else a device handle id
    arrays,             \* heap of numpy arrays: id -> sequence of rows
    devs,               \* every RtlSdr handle ever created: id -> record
    threads,            \* every Thread ever started: id -> record
    callerPc,           \* control thread: "idle" or "joining" (in thread.join())
    callerOp,           \* the call the control thread is blocked in
    callResult,         \* outcome of the last completed start_stream/stop_stream
    active,             \* app.py stream_params.active
    cPc, cRef,          \* a get_current_signal caller: position, array it was handed
    uPc, uRef,          \* stream_signal callback: position, array it read
    fnArgs, fnResult    \* offline pipeline: arguments of the function being
                        \* evaluated and its result (<<>> when none is)

vars == <<enabled, thread, current_signal, read_is_available, sdrStore, arrays,
          devs, threads, callerPc, callerOp, callResult, active,
          cPc, cRef, uPc, uRef, fnArgs, fnResult>>

streamerVars == <<enabled, thread, current_signal, read_is_available>>
callerVars   == <<callerPc, callerOp, callResult, active>>
consumerVars == <<cPc, cRef>>
uiVars       == <<uPc, uRef>>
pureVars     == <<fnArgs, fnResult>>

(* ------------------------------ data ----------------------------------- *)
\* a row of a freshly preallocated buffer (np.zeros)
ZeroRow == [t |-> 0, f |-> 0, k |-> 0]

\* a row read from the device by thread t during its fill f; k is the
\* position of the read among all reads made on that device handle
SampleRow(t, f, k) == [t |-> t, f |-> f, k |-> k]

\* np.zeros([n_reads_per_acquisition, n_samples_per_read])
Zeros(n) == [i \in 1..n |-> ZeroRow]

\* the array constructed by __init__: np.array([]), of size 0
EmptyArray == 1

ThreadIds == 1..Len(threads)
DevIds    == 1..Len(devs)

Exited(t) == threads[t].pc \in {"done", "failed"}
Alive(t)  == ~Exited(t)

AliveThreads == {t \in ThreadIds : Alive(t)}
OpenDevs     == {h \in DevIds : devs[h].open}

can_start_acquisition == thread = 0

\* batch fills begun so far, over all acquisition loops
RECURSIVE SumFills(_)
SumFills(n) == IF n = 0 THEN 0 ELSE threads[n].fills + SumFills(n - 1)
TotalFills == SumFills(Len(threads))

(* ------------------------------ Init ----------------------------------- *)
\* the streamer, the callers and the Dash state after construction
InitStreamer ==
    /\ enabled = FALSE
    /\ thread = 0
    /\ current_signal = EmptyArray
    /\ read_is_available = FALSE
    /\ sdrStore = 0
    /\ arrays = << <<>> >>
    /\ devs = <<>>
    /\ threads = <<>>
    /\ callerPc = "idle"
    /\ callerOp = "none"
    /\ callResult = "none"
    /\ active = FALSE
    /\ cPc = "idle" /\ cRef = 0
    /\ uPc = "idle" /\ uRef = 0

Init == InitStreamer /\ fnArgs = <<>> /\ fnResult = <<>>

(* ------------------------- SignalStreamer API -------------------------- *)
\* a Thread object targeting signal_acquisition_loop with n reads per batch
NewThread(n) == [pc |-> "gs_check", sdr |-> 0, n |-> n, i |-> 0, fills |-> 0]

\* start_stream without line 64 (self.enabled = True)
start_stream_enabled_unset(n) ==
    /\ threads' = Append(threads, NewThread(n))
    /\ thread' = Len(threads) + 1
    /\ UNCHANGED enabled

\* start_stream: warn when a loop is already running, then (in either case)
\* set enabled, start a new thread and remember it in self.thread
start_stream(n) ==
    /\ enabled' = TRUE
    /\ threads' = Append(threads, NewThread(n))
    /\ thread' = Len(threads) + 1

StartResult == IF can_start_acquisition THEN "ok" ELSE "warning"

StartStream(n) ==
    /\ callerPc = "idle"
    /\ Len(threads) < MaxThreads
    /\ start_stream(n)
    /\ callResult' = StartResult
    /\ UNCHANGED <<pureVars, current_signal, read_is_available, sdrStore, arrays, devs,
                   callerPc, callerOp, active, consumerVars, uiVars>>

\* stop_stream without the early return of line 95: it falls through to
\* line 98 and to None.join(), which raises
StopStreamIdleFallsThrough ==
    /\ callerPc = "idle"
    /\ thread = 0
    /\ enabled' = FALSE
    /\ callResult' = "error"
    /\ UNCHANGED <<pureVars, thread, current_signal, read_is_available, sdrStore,
                   arrays, devs, threads, callerPc, callerOp, active, consumerVars,
                   uiVars>>

\* stop_stream on an idle streamer: warning and return
StopStreamIdle ==
    /\ callerPc = "idle"
    /\ thread = 0
    /\ callResult' = "warning"
    /\ UNCHANGED <<pureVars, streamerVars, sdrStore, arrays, devs, threads,
                   callerPc, callerOp, active, consumerVars, uiVars>>

\* stop_stream on a non-idle streamer, up to the blocking thread.join()
StopStreamSignal ==
    /\ callerPc = "idle"
    /\ thread # 0
    /\ enabled' = FALSE
    /\ callerPc' = "joining"
    /\ callerOp' = "stop"
    /\ UNCHANGED <<pureVars, thread, current_signal, read_is_available, sdrStore, arrays,
                   devs, threads, callResult, active, consumerVars, uiVars>>

\* stop_stream after thread.join() has returned
StopStreamJoined ==
    /\ callerPc = "joining"
    /\ callerOp = "stop"
    /\ Exited(thread)
    /\ thread' = 0
    /\ callerPc' = "idle"
    /\ callerOp' = "none"
    /\ callResult' = "ok"
    /\ UNCHANGED <<pureVars, enabled, current_signal, read_is_available, sdrStore, arrays,
                   devs, threads, active, consumerVars, uiVars>>

(* -------------------- app.py toggle_stream callback -------------------- *)
\* toggle_stream always starts with the default n_reads_per_acquisition
DefaultReads == 1

\* "Start Stream" pressed, streamer idle: stop_stream warns and returns,
\* start_stream runs, stream_params.active is set
ToggleStartIdle ==
    /\ callerPc = "idle"
    /\ thread = 0
    /\ Len(threads) < MaxThreads
    /\ start_stream(DefaultReads)
    /\ callResult' = "ok"
    /\ active' = TRUE
    /\ UNCHANGED <<pureVars, current_signal, read_is_available, sdrStore, arrays, devs,
                   callerPc, callerOp, consumerVars, uiVars>>

\* "Start Stream" pressed, streamer not idle: stop_stream blocks in join()
ToggleStartSignal ==
    /\ callerPc = "idle"
    /\ thread # 0
    /\ Len(threads) < MaxThreads
    /\ enabled' = FALSE
    /\ callerPc' = "joining"
    /\ callerOp' = "toggle_start"
    /\ UNCHANGED <<pureVars, thread, current_signal, read_is_available, sdrStore, arrays,
                   devs, threads, callResult, active, consumerVars, uiVars>>

\* ... join() returned: thread = None, then start_stream and active = True
ToggleStartJoined ==
    /\ callerPc = "joining"
    /\ callerOp = "toggle_start"
    /\ Exited(thread)
    /\ start_stream(DefaultReads)
    /\ callerPc' = "idle"
    /\ callerOp' = "none"
    /\ callResult' = "ok"
    /\ active' = TRUE
    /\ UNCHANGED <<pureVars, current_signal, read_is_available, sdrStore, arrays, devs,
                   consumerVars, uiVars>>

\* "Stop Stream" pressed, streamer idle
ToggleStopIdle ==
    /\ callerPc = "idle"
    /\ thread = 0
    /\ callResult' = "warning"
    /\ active' = FALSE
    /\ UNCHANGED <<pureVars, streamerVars, sdrStore, arrays, devs, threads,
                   callerPc, callerOp, consumerVars, uiVars>>

\* "Stop Stream" pressed, streamer not idle: stop_stream blocks in join()
ToggleStopSignal ==
    /\ callerPc = "idle"
    /\ thread # 0
    /\ enabled' = FALSE
    /\ callerPc' = "joining"
    /\ callerOp' = "toggle_stop"
    /\ UNCHANGED <<pureVars, thread, current_signal, read_is_available, sdrStore, arrays,
                   devs, threads, callResult, active, consumerVars, uiVars>>

ToggleStopJoined ==
    /\ callerPc = "joining"
    /\ callerOp = "toggle_stop"
    /\ Exited(thread)
    /\ thread' = 0
    /\ callerPc' = "idle"
    /\ callerOp' = "none"
    /\ callResult' = "ok"
    /\ active' = FALSE
    /\ UNCHANGED <<pureVars, enabled, current_signal, read_is_available, sdrStore, arrays,
                   devs, threads, consumerVars, uiVars>>

(* ------------------------------ get_sdr -------------------------------- *)
\* thread t moves to pc p, with local changes given by the record r
Goto(t, p) == threads' = [threads EXCEPT ![t].pc = p]

NewDevice == [open |-> TRUE, reads |-> 0, closes |-> 0]

\* sdr.close() on handle h
CloseDev(h) == devs' = [devs EXCEPT ![h].open = FALSE, ![h].closes = @ + 1]

\* a successful sdr.read_samples() on handle h
ReadDev(h) == devs' = [devs EXCEPT ![h].reads = @ + 1]

\* the padding read left out: no read_samples call is made on the handle
NoPaddingRead(h) == UNCHANGED devs

\* lines 146 and 201: sdr.read_samples(2048), the samples are dropped
DiscardPadding(h) == ReadDev(h)

\* line 186: if sdrStore.sdr is not None
GsCheck(t) ==
    /\ threads[t].pc = "gs_check"
    /\ Goto(t, IF sdrStore # 0 THEN "gs_close" ELSE "gs_open")
    /\ UNCHANGED <<pureVars, streamerVars, sdrStore, arrays, devs, callerVars,
                   consumerVars, uiVars>>

\* line 191: sdrStore.sdr.close(); sdrStore.sdr is read again here and is
\* None when another thread has cleared it meanwhile (AttributeError)
GsClose(t) ==
    /\ threads[t].pc = "gs_close"
    /\ IF sdrStore = 0
       THEN Goto(t, "failed") /\ UNCHANGED devs
       ELSE Goto(t, "gs_clear") /\ CloseDev(sdrStore)
    /\ UNCHANGED <<pureVars, streamerVars, sdrStore, arrays, callerVars,
                   consumerVars, uiVars>>

\* line 192: sdrStore.sdr = None
GsClear(t) ==
    /\ threads[t].pc = "gs_clear"
    /\ sdrStore' = 0
    /\ Goto(t, "gs_open")
    /\ UNCHANGED <<pureVars, streamerVars, arrays, devs, callerVars,
                   consumerVars, uiVars>>

\* line 194: sdr = RtlSdr(); the driver opens a handle or raises
GsOpen(t, ok) ==
    /\ threads[t].pc = "gs_open"
    /\ IF ok
       THEN /\ devs' = Append(devs, NewDevice)
            /\ threads' = [threads EXCEPT ![t].pc = "gs_init",
                                           ![t].sdr = Len(devs) + 1]
       ELSE Goto(t, "failed") /\ UNCHANGED devs
    /\ UNCHANGED <<pureVars, streamerVars, sdrStore, arrays, callerVars,
                   consumerVars, uiVars>>

\* lines 195-205: configure (sample_rate, center_freq, freq_correction,
\* gain), drop the 2048 padding samples, sdrStore.sdr = sdr, return sdr.
\* A raise in the configuration or in the read leaves get_sdr and the
\* thread at once: nothing encloses the call at line 141
GsInit(t, outcome) ==
    /\ threads[t].pc = "gs_init"
    /\ IF outcome = "ok"
       THEN /\ DiscardPadding(threads[t].sdr)
            /\ sdrStore' = threads[t].sdr
            /\ Goto(t, "pad")
       ELSE Goto(t, "failed") /\ UNCHANGED <<devs, sdrStore>>
    /\ UNCHANGED <<pureVars, streamerVars, arrays, callerVars, consumerVars, uiVars>>

InitOutcomes == {"ok", "configure_error", "read_error"}

(* ----------------------- signal_acquisition_loop ----------------------- *)
\* lines 144-153: inside the try, sdr.read_samples(2048), then
\* self.current_signal = np.zeros([n_reads, n_samples])
LoopPrealloc(t, ok) ==
    /\ threads[t].pc = "pad"
    /\ IF ok
       THEN /\ DiscardPadding(threads[t].sdr)
            /\ arrays' = Append(arrays, Zeros(threads[t].n))
            /\ current_signal' = Len(arrays) + 1
            /\ Goto(t, "while")
       ELSE Goto(t, "finally_err") /\ UNCHANGED <<devs, arrays, current_signal>>
    /\ UNCHANGED <<pureVars, enabled, thread, read_is_available, sdrStore,
                   callerVars, consumerVars, uiVars>>

\* line 155 as "while True": the loop never looks at self.enabled
WhileTrue(t) ==
    /\ threads[t].pc = "while"
    /\ TotalFills < MaxFills
    /\ Goto(t, "clear")
    /\ UNCHANGED <<pureVars, streamerVars, sdrStore, arrays, devs, callerVars,
                   consumerVars, uiVars>>

\* line 155: while self.enabled
WhileEnabled(t) ==
    /\ threads[t].pc = "while"
    /\ IF enabled
       THEN TotalFills < MaxFills /\ Goto(t, "clear")
       ELSE Goto(t, "finally_ok")
    /\ UNCHANGED <<pureVars, streamerVars, sdrStore, arrays, devs, callerVars,
                   consumerVars, uiVars>>

\* line 157: self.read_is_available = False, and entry into the for loop
ClearAvailable(t) ==
    /\ threads[t].pc = "clear"
    /\ read_is_available' = FALSE
    /\ threads' = [threads EXCEPT ![t].pc = "read", ![t].i = 0,
                                   ![t].fills = @ + 1]
    /\ UNCHANGED <<pureVars, enabled, thread, current_signal, sdrStore, arrays, devs,
                   callerVars, consumerVars, uiVars>>

\* lines 159-162: self.current_signal[i, :] = sdr.read_samples(...); the
\* target is whatever array self.current_signal names at that moment, and
\* an index beyond its rows raises IndexError
ReadRow(t, ok) ==
    /\ threads[t].pc = "read"
    /\ threads[t].i < threads[t].n
    /\ IF ok /\ threads[t].i < Len(arrays[current_signal])
       THEN /\ ReadDev(threads[t].sdr)
            /\ arrays' = [arrays EXCEPT ![current_signal][threads[t].i + 1] =
                              SampleRow(t, threads[t].fills,
                                        devs[threads[t].sdr].reads + 1)]
            /\ threads' = [threads EXCEPT ![t].i = @ + 1]
       ELSE Goto(t, "finally_err") /\ UNCHANGED <<arrays, devs>>
    /\ UNCHANGED <<pureVars, streamerVars, sdrStore, callerVars, consumerVars, uiVars>>

\* lines 165-166: self.read_is_available = True; time.sleep(...)
Publish(t) ==
    /\ threads[t].pc = "read"
    /\ threads[t].i = threads[t].n
    /\ read_is_available' = TRUE
    /\ Goto(t, "while")
    /\ UNCHANGED <<pureVars, enabled, thread, current_signal, sdrStore, arrays, devs,
                   callerVars, consumerVars, uiVars>>

\* lines 168-173: except: log and re-raise; finally: sdr.close()
Finally(t) ==
    /\ threads[t].pc \in {"finally_ok", "finally_err"}
    /\ CloseDev(threads[t].sdr)
    /\ Goto(t, IF threads[t].pc = "finally_ok" THEN "done" ELSE "failed")
    /\ UNCHANGED <<pureVars, streamerVars, sdrStore, arrays, callerVars,
                   consumerVars, uiVars>>

ThreadStep(t) ==
    \/ GsCheck(t)
    \/ GsClose(t)
    \/ GsClear(t)
    \/ \E ok \in BOOLEAN : GsOpen(t, ok)
    \/ \E outcome \in InitOutcomes : GsInit(t, outcome)
    \/ \E ok \in BOOLEAN : LoopPrealloc(t, ok)
    \/ WhileEnabled(t)
    \/ ClearAvailable(t)
    \/ \E ok \in BOOLEAN : ReadRow(t, ok)
    \/ Publish(t)
    \/ Finally(t)

(* ------------------------------ consumers ------------------------------ *)
\* a caller enters get_current_signal
GetCurrentSignalCall ==
    /\ cPc = "idle"
    /\ cPc' = "spin"
    /\ cRef' = 0
    /\ UNCHANGED <<pureVars, streamerVars, sdrStore, arrays, devs, threads, callerVars,
                   uiVars>>

\* lines 114-117: leave the wait loop once read_is_available is seen True
GetCurrentSignalSpin ==
    /\ cPc = "spin"
    /\ read_is_available
    /\ cPc' = "ret"
    /\ UNCHANGED <<pureVars, streamerVars, sdrStore, arrays, devs, threads, callerVars,
                   cRef, uiVars>>

\* line 119: return self.current_signal (the array object, not a copy);
\* from here on the caller holds the array and reads its contents
GetCurrentSignalReturn ==
    /\ cPc = "ret"
    /\ cRef' = current_signal
    /\ cPc' = "idle"
    /\ UNCHANGED <<pureVars, streamerVars, sdrStore, arrays, devs, threads, callerVars,
                   uiVars>>

\* app.py stream_signal, lines 577-585: return unless stream_params.active;
\* signal_data = signal_streamer.current_signal; return if it is empty
StreamSignalRead ==
    /\ uPc = "idle"
    /\ active
    /\ uRef' = current_signal
    /\ uPc' = IF Len(arrays[current_signal]) = 0 THEN "idle" ELSE "process"
    /\ UNCHANGED <<pureVars, streamerVars, sdrStore, arrays, devs, threads, callerVars,
                   consumerVars>>

\* app.py stream_signal, lines 589-626: get_frequency_space_np(signal_data,
\* ...) reads the array's contents; the callback then returns
StreamSignalProcess ==
    /\ uPc = "process"
    /\ uPc' = "idle"
    /\ uRef' = 0
    /\ UNCHANGED <<pureVars, streamerVars, sdrStore, arrays, devs, threads, callerVars,
                   consumerVars>>

(* ------------------------------ Next ----------------------------------- *)
Next ==
    \/ \E n \in 1..MaxReads : StartStream(n)
    \/ StopStreamIdle
    \/ StopStreamSignal
    \/ StopStreamJoined
    \/ ToggleStartIdle
    \/ ToggleStartSignal
    \/ ToggleStartJoined
    \/ ToggleStopIdle
    \/ ToggleStopSignal
    \/ ToggleStopJoined
    \/ \E t \in ThreadIds : ThreadStep(t)
    \/ GetCurrentSignalCall
    \/ GetCurrentSignalSpin
    \/ GetCurrentSignalReturn
    \/ StreamSignalRead
    \/ StreamSignalProcess

Spec == Init /\ [][Next]_vars

\* The streamer driven through its own API only (start_stream, stop_stream,
\* get_current_signal and the acquisition threads), without the Dash callbacks.
ApiNext ==
    \/ \E n \in 1..MaxReads : StartStream(n)
    \/ StopStreamIdle
    \/ StopStreamSignal
    \/ StopStreamJoined
    \/ \E t \in ThreadIds : ThreadStep(t)
    \/ GetCurrentSignalCall
    \/ GetCurrentSignalSpin
    \/ GetCurrentSignalReturn

\* Scheduling: a started thread keeps being scheduled, a join() on an exited
\* thread returns, a caller inside get_current_signal keeps running.  Calls
\* into the streamer (start, stop, a new get_current_signal) are the
\* environment's choice and carry no fairness.
Fairness ==
    /\ \A t \in 1..MaxThreads : WF_vars(t \in ThreadIds /\ ThreadStep(t))
    /\ WF_vars(StopStreamJoined)
    /\ WF_vars(GetCurrentSignalSpin)
    /\ WF_vars(GetCurrentSignalReturn)

FairSpec == Init /\ [][ApiNext]_vars /\ Fairness

TypeOK ==
    /\ enabled \in BOOLEAN
    /\ read_is_available \in BOOLEAN
    /\ thread \in 0..Len(threads)
    /\ current_signal \in 1..Len(arrays)
    /\ sdrStore \in 0..Len(devs)
    /\ Len(threads) <= MaxThreads
    /\ TotalFills <= MaxFills + MaxThreads
    /\ callResult \in {"none", "ok", "warning"}
    /\ cRef \in 0..Len(arrays)
    /\ uRef \in 0..Len(arrays)
    /\ \A t \in ThreadIds : threads[t].i <= threads[t].n

(* ============================== claims ================================= *)
\* a start_stream call made directly on the streamer completes in this step
StartCall == \E n \in 1..MaxReads : StartStream(n)

\* every row of the array carries the stamp of one and the same fill
OneFill(a) == \A i, j \in 1..Len(a) : a[i].t = a[j].t /\ a[i].f = a[j].f

\* every row of the array was written by one and the same fill
Complete(a) == Len(a) > 0 /\ OneFill(a) /\ a[1].t # 0

\* C1: at most one radio device handle is open at any instant, whatever the
\* interleaving of start_stream, stop_stream and acquisition-loop steps.
C1_AtMostOneOpenDevice == Cardinality(OpenDevs) <= 1

\* C2: at most one acquisition loop of the streamer is alive in every
\* reachable state.
C2_AtMostOneLoopAlive == Cardinality(AliveThreads) <= 1

\* C3: start_stream called while the streamer is Running (thread is not
\* None) starts no thread, opens no device, leaves thread, enabled and the
\* published buffer as they were and raises nothing: it only warns.
C3_StartWhileRunningIsNoOp ==
    [][(thread # 0 /\ StartCall) =>
          /\ threads' = threads
          /\ thread' = thread
          /\ enabled' = enabled
          /\ devs' = devs
          /\ current_signal' = current_signal
          /\ arrays' = arrays
          /\ callResult' = "warning"]_vars

\* C4: the batch a consumer holds (handed out by get_current_signal, or read
\* by stream_signal) is never a mix of rows of different fills.
C4_NoTornBatch ==
    /\ cRef # 0 => OneFill(arrays[cRef])
    /\ uPc = "process" => OneFill(arrays[uRef])

\* C5: once a batch is published, the contents of the array a consumer
\* obtained for it are never changed by a later loop iteration.
C5_PublishedBatchImmutable ==
    [][(cRef # 0 /\ cRef' = cRef /\ Complete(arrays[cRef])) =>
          arrays'[cRef] = arrays[cRef]]_vars

\* C6: when stop_stream returns after being called on a non-idle streamer,
\* every acquisition loop ever started has exited, every device handle is
\* closed and thread is None.
C6_StopLeavesNothingBehind ==
    [][StopStreamJoined =>
          /\ thread' = 0
          /\ AliveThreads' = {}
          /\ OpenDevs' = {}]_vars

\* C7: on every exit path of the acquisition task (normal stop, read error
\* in the loop, failure while opening or configuring the device or in the
\* padding read of get_sdr) the handle the task opened is closed.
C7_ExitedTaskClosedItsDevice ==
    \A t \in ThreadIds :
        (Exited(t) /\ threads[t].sdr # 0) => ~devs[threads[t].sdr].open

\* C8: when a device error terminates the streamer's acquisition loop, the
\* streamer is Idle at once: thread is None and enabled is False, with no
\* stop_stream call.
C8_FailureReturnsToIdle ==
    [][(/\ thread # 0
        /\ thread' = thread
        /\ threads[thread].pc # "failed"
        /\ threads'[thread].pc = "failed") =>
          (thread' = 0 /\ enabled' = FALSE)]_vars

\* C9: a failure of the background task is reported to the caller by the
\* next start_stream or stop_stream call made after it.
C9_FailureReportedToNextCall ==
    [][((\E t \in ThreadIds : threads[t].pc = "failed")
        /\ (StartCall \/ StopStreamIdle)) =>
          callResult' = "error"]_vars

\* C10: Idle (thread is None) implies no open device and no live
\* acquisition thread; Running (thread is not None) implies exactly one
\* open device and exactly one live acquisition thread.
C10_StateMatchesResources ==
    /\ thread = 0 => (OpenDevs = {} /\ AliveThreads = {})
    /\ thread # 0 => (Cardinality(OpenDevs) = 1 /\ Cardinality(AliveThreads) = 1)

\* C11: on a fresh streamer, start_stream followed by stop_stream leaves the
\* streamer Idle: thread is None, enabled is False, the device is closed and
\* no acquisition thread is alive.
C11_StartThenStopIsIdle ==
    (Len(threads) = 1 /\ thread = 0 /\ callerPc = "idle") =>
        /\ can_start_acquisition
        /\ enabled = FALSE
        /\ OpenDevs = {}
        /\ AliveThreads = {}

(* ------------------------ plane_sailing (pure) ------------------------- *)
\* numpy argmax: scan from the left, a later element replaces the best only
\* when strictly greater, so the first occurrence of the maximum wins.
\* ArgMaxUpTo is 1-based, argmax is the 0-based numpy index
RECURSIVE ArgMaxUpTo(_, _)
ArgMaxUpTo(a, i) ==
    IF i = 1 THEN 1
    ELSE LET best == ArgMaxUpTo(a, i - 1)
         IN  IF a[i] > a[best] THEN i ELSE best

\* an argmax whose ties go to the last occurrence of the maximum
argmax_last(a) ==
    (CHOOSE i \in 1..Len(a) :
        /\ \A j \in 1..Len(a) : a[j] <= a[i]
        /\ \A j \in (i + 1)..Len(a) : a[j] < a[i]) - 1

argmax(a) == ArgMaxUpTo(a, Len(a)) - 1

\* a slice bound of Python/numpy on a sequence of length len: a negative
\* bound counts from the end, and the result is clipped to 0..len
SliceBound(x, len) ==
    IF x < 0 THEN (IF x + len < 0 THEN 0 ELSE x + len)
    ELSE IF x > len THEN len ELSE x

\* a[start:stop] of Python/numpy, 0-based and stop exclusive
PySlice(a, start, stop) ==
    LET lo == SliceBound(start, Len(a))
        hi == SliceBound(stop, Len(a))
    IN  IF lo >= hi THEN <<>> ELSE SubSeq(a, lo + 1, hi)

\* plane_sailing.trim_iq_around_peak
trim_iq_around_peak(iq_mag, n_either_side) ==
    LET idx == argmax(iq_mag)
    IN  PySlice(iq_mag, idx - n_either_side, idx + n_either_side)

\* non-empty magnitude arrays of bounded length and bounded values
Magnitudes == UNION {[1..n -> 0..MaxVal] : n \in 1..MaxLen}

\* a call trim_iq_around_peak(iq_mag, n_either_side) about to be made
TrimInit ==
    /\ InitStreamer
    /\ fnArgs \in [iq_mag : Magnitudes, n_either_side : 1..MaxHalfWidth]
    /\ fnResult = [returned |-> FALSE, value |-> <<>>]

\* the call returns
TrimIqAroundPeak ==
    /\ ~fnResult.returned
    /\ fnResult' = [returned |-> TRUE,
                    value |-> trim_iq_around_peak(fnArgs.iq_mag,
                                                  fnArgs.n_either_side)]
    /\ UNCHANGED <<fnArgs, streamerVars, sdrStore, arrays, devs, threads,
                   callerVars, consumerVars, uiVars>>

TrimNext == TrimIqAroundPeak

TrimSpec == TrimInit /\ [][TrimNext]_vars

(* ---------------- plane_sailing.shift_to_optimal_phase ----------------- *)
\* Scores are exact fractions num/den with den > 0; nan marks the NaN that
\* pandas gives for the mean of no value.  Floating-point rounding is not
\* modelled.
NaNScore == [nan |-> TRUE, num |-> 0, den |-> 1]

\* line 55: max_score = -1
InitialMaxScore == [nan |-> FALSE, num |-> -1, den |-> 1]

\* line 56: max_score_phase = None
None == -1

RECURSIVE SumSeq(_, _, _)
\* a[lo] + ... + a[hi]
SumSeq(a, lo, hi) == IF lo > hi THEN 0 ELSE a[lo] + SumSeq(a, lo + 1, hi)

Abs(x) == IF x < 0 THEN -x ELSE x

\* lines 67-71: number of groups of indices arange(len) // steps
NumBlocks(len, steps) == (len + steps - 1) \div steps

\* the size of group k (1-based); only the last group can be short
BlockSize(len, steps, k) ==
    IF k * steps <= len THEN steps ELSE len - (k - 1) * steps

\* the mean of group k of d, times steps * (size of the last group), so that
\* every block mean of one phase is an integer over the same denominator
ScaledBlockMean(d, steps, k) ==
    LET len  == Len(d)
        last == BlockSize(len, steps, NumBlocks(len, steps))
        n    == BlockSize(len, steps, k)
        sum  == SumSeq(d, (k - 1) * steps + 1, (k - 1) * steps + n)
    IN  sum * ((steps * last) \div n)

RECURSIVE SumDeltas(_, _, _)
\* line 74: the absolute differences of block k..2 with their predecessor
SumDeltas(d, steps, k) ==
    IF k < 2 THEN 0
    ELSE Abs(ScaledBlockMean(d, steps, k) - ScaledBlockMean(d, steps, k - 1))
           + SumDeltas(d, steps, k - 1)

\* lines 64-75: the score of one phase: the mean of the differences between
\* neighbouring block averages of iq_mag[phase:]; NaN with fewer than two
\* blocks (the first difference is NaN and mean() skips it)
PhaseScore(iq_mag, steps, phase) ==
    LET d    == PySlice(iq_mag, phase, Len(iq_mag))
        b    == NumBlocks(Len(d), steps)
        last == BlockSize(Len(d), steps, b)
    IN  IF b < 2 THEN NaNScore
        ELSE [nan |-> FALSE,
              num |-> SumDeltas(d, steps, b),
              den |-> steps * last * (b - 1)]

\* a replacement rule without hysteresis: score > max_score
ExceedsAtAll(score, max_score) ==
    /\ ~score.nan
    /\ score.num * max_score.den > max_score.num * score.den

\* a replacement rule with an absolute margin: score > max_score + 1
ExceedsByOne(score, max_score) ==
    /\ ~score.nan
    /\ score.num * max_score.den > (max_score.num + max_score.den) * score.den

\* line 79: score > max_score * 1.01 (False when score is NaN)
Exceeds(score, max_score) ==
    /\ ~score.nan
    /\ 100 * score.num * max_score.den > 101 * max_score.num * score.den

\* a loop over range(0, steps_to_check + 1)
OnePhaseTooMany(steps) == steps

\* line 63: range(0, steps_to_check - 1) ends at steps_to_check - 2
LastPhaseChecked(steps) == steps - 2

PhasesChecked(steps) == 0..LastPhaseChecked(steps)

RECURSIVE ScanPhases(_, _, _)
\* lines 63-81: (max_score, max_score_phase) after phases 0..upto
ScanPhases(iq_mag, steps, upto) ==
    IF upto < 0
    THEN [max_score |-> InitialMaxScore, max_score_phase |-> None]
    ELSE LET best  == ScanPhases(iq_mag, steps, upto - 1)
             score == PhaseScore(iq_mag, steps, upto)
         IN  IF Exceeds(score, best.max_score)
             THEN [max_score |-> score, max_score_phase |-> upto]
             ELSE best

\* the phase the loop of lines 63-81 ends with
SelectedPhase(iq_mag, samples_per_us) ==
    ScanPhases(iq_mag, samples_per_us,
               LastPhaseChecked(samples_per_us)).max_score_phase

\* line 88: iq_mag[max_score_phase:]; a slice from None starts at index 0
shift_to_optimal_phase(iq_mag, samples_per_us) ==
    LET phase == SelectedPhase(iq_mag, samples_per_us)
    IN  IF phase = None THEN iq_mag
        ELSE PySlice(iq_mag, phase, Len(iq_mag))

\* envelope values: a low level, and two levels whose block differences
\* come within 1% of each other
Levels == {0, 102, 456}

Envelopes == UNION {[1..n -> Levels] : n \in 1..MaxPhaseLen}

\* a call shift_to_optimal_phase(iq_mag, samples_per_us) about to be made
PhaseInit ==
    /\ InitStreamer
    /\ fnArgs \in [iq_mag : Envelopes, samples_per_us : 1..MaxSpu]
    /\ fnResult = [returned |-> FALSE, scores |-> {}, max_score_phase |-> None,
                   value |-> <<>>]

\* the call returns; scores is the set of keys of the dict of line 60
ShiftToOptimalPhase ==
    /\ ~fnResult.returned
    /\ fnResult' =
          [returned |-> TRUE,
           scores |-> PhasesChecked(fnArgs.samples_per_us),
           max_score_phase |-> SelectedPhase(fnArgs.iq_mag, fnArgs.samples_per_us),
           value |-> shift_to_optimal_phase(fnArgs.iq_mag, fnArgs.samples_per_us)]
    /\ UNCHANGED <<fnArgs, streamerVars, sdrStore, arrays, devs, threads,
                   callerVars, consumerVars, uiVars>>

PhaseNext == ShiftToOptimalPhase

PhaseSpec == PhaseInit /\ [][PhaseNext]_vars

(* ---------------- plane_sailing.downsample_to_buckets ------------------ *)
\* line 98: the group key of the sample at 0-based index i,
\* i // (samples_per_us / 2), a floor division by a float: floor(2i / spu)
BucketKey(i, samples_per_us) == (2 * i) \div samples_per_us

\* the 1-based positions of the samples of iq_mag with group key k
BucketMembers(iq_mag, samples_per_us, k) ==
    {i \in 1..Len(iq_mag) : BucketKey(i - 1, samples_per_us) = k}

RECURSIVE SumOver(_, _)
\* the sum of a[i] over the positions i in S
SumOver(a, S) ==
    IF S = {} THEN 0
    ELSE LET i == CHOOSE j \in S : TRUE IN a[i] + SumOver(a, S \ {i})

RECURSIVE BucketMeans(_, _, _)
\* line 99: groupby(indices).mean(), one row per key that occurs, in key
\* order, for the keys k and above; a mean is kept as sum and count
BucketMeans(iq_mag, samples_per_us, k) ==
    IF k > BucketKey(Len(iq_mag) - 1, samples_per_us) THEN <<>>
    ELSE LET members == BucketMembers(iq_mag, samples_per_us, k)
             rest    == BucketMeans(iq_mag, samples_per_us, k + 1)
         IN  IF members = {} THEN rest
             ELSE <<[sum |-> SumOver(iq_mag, members),
                     count |-> Cardinality(members),
                     first |-> CHOOSE i \in members : \A j \in members : i <= j]>>
                  \o rest

\* plane_sailing.downsample_to_buckets
downsample_to_buckets(iq_mag, samples_per_us) ==
    BucketMeans(iq_mag, samples_per_us, 0)

\* a call downsample_to_buckets(iq_mag, samples_per_us) about to be made
BucketInit ==
    /\ InitStreamer
    /\ fnArgs \in [iq_mag : Magnitudes, samples_per_us : 1..MaxSpu]
    /\ fnResult = [returned |-> FALSE, value |-> <<>>]

\* the call returns
DownsampleToBuckets ==
    /\ ~fnResult.returned
    /\ fnResult' = [returned |-> TRUE,
                    value |-> downsample_to_buckets(fnArgs.iq_mag,
                                                    fnArgs.samples_per_us)]
    /\ UNCHANGED <<fnArgs, streamerVars, sdrStore, arrays, devs, threads,
                   callerVars, consumerVars, uiVars>>

BucketNext == DownsampleToBuckets

BucketSpec == BucketInit /\ [][BucketNext]_vars

(* ------- signal_processing.resample_to_target and preprocess_iq -------- *)
\* Sample rates are floats; the model counts them in half hertz, so that a
\* rate that is not a whole number of hertz can be drawn.
HalfHz == 2

\* plane_sailing.py line 116: 1e6
MHz == 1000000

\* fractions.Fraction.limit_denominator(max_denominator=1000000)
MaxDenominator == 1000000

\* plane_sailing.py line 32: n_either_side=1000
DefaultHalfWidth == 1000

RECURSIVE Gcd(_, _)
Gcd(a, b) == IF b = 0 THEN a ELSE Gcd(b, a % b)

\* int(x) of a rate x >= 0 counted in half hertz
IntOf(rate) == rate \div HalfHz

\* Fraction(n, d): the fraction in lowest terms
Fraction(n, d) == [numerator |-> n \div Gcd(n, d), denominator |-> d \div Gcd(n, d)]

\* |a - b| <= |c - b| for fractions
NoFurther(a, b, c) ==
    Abs(a.numerator * b.denominator - b.numerator * a.denominator) * c.denominator
        <= Abs(c.numerator * b.denominator - b.numerator * c.denominator) * a.denominator

\* Fraction.limit_denominator(): the fraction itself when its denominator is
\* at most max_denominator, else a closest fraction with such a denominator
LimitDenominator(f) ==
    IF f.denominator <= MaxDenominator THEN f
    ELSE CHOOSE g \in [numerator : 0..f.numerator, denominator : 1..MaxDenominator] :
            \A h \in [numerator : 0..f.numerator, denominator : 1..MaxDenominator] :
                NoFurther(g, f, h)

\* scipy.signal.resample_poly(s, up, down): the output has
\* ceil(len(s) * up / down) samples
ResampledLen(n, up, down) == (n * up + down - 1) \div down

\* signal_processing.resample_to_target on n samples: up, down, the length
\* of the resampled signal and the rate returned (line 79: target_sr)
resample_to_target(n, orig_sr, target_sr) ==
    LET ratio == LimitDenominator(Fraction(IntOf(target_sr), IntOf(orig_sr)))
    IN  [up   |-> ratio.numerator,
         down |-> ratio.denominator,
         len  |-> ResampledLen(n, ratio.numerator, ratio.denominator),
         sr   |-> target_sr]

\* a complex sample in polar form
ComplexSamples == [mag : 0..MaxVal, arg : 0..1]

\* signal_processing.iq_to_envelope: np.abs(iq)
iq_to_envelope(iq) == [i \in 1..Len(iq) |-> iq[i].mag]

\* int(round(rate / 1e6)) of a rate counted in half hertz; Python rounds a
\* tie to the even integer
RoundMHz(rate) ==
    LET unit == HalfHz * MHz
        q    == rate \div unit
        r    == rate % unit
    IN  IF 2 * r < unit THEN q
        ELSE IF 2 * r > unit THEN q + 1
        ELSE IF q % 2 = 0 THEN q ELSE q + 1

\* original and target rates, in half hertz: 2 MHz and 2.4 MHz; 2 MHz,
\* 4 MHz and 4 MHz + 0.5 Hz
OrigRates == {4000000, 4800000}
TargetRates == {4000000, 8000000, 8000001}

\* a call preprocess_iq(iq, orig_sr, target_sr) about to be made, iq having
\* iq_len samples
PreprocessInit ==
    /\ InitStreamer
    /\ fnArgs \in [iq_len : 1..MaxIqLen, orig_sr : OrigRates, target_sr : TargetRates]
    /\ fnResult = [pc |-> "line111", stages |-> <<>>, up |-> 0, down |-> 0,
                   sr |-> 0, samples_per_us |-> 0, aligned |-> <<>>, value |-> <<>>]

PreprocessUnchanged ==
    UNCHANGED <<fnArgs, streamerVars, sdrStore, arrays, devs, threads,
                callerVars, consumerVars, uiVars>>

\* line 111: iq_resampled, sr = resample_to_target(iq, orig_sr, target_sr);
\* the values the polyphase filter produces are any complex samples
PreprocessResample ==
    /\ fnResult.pc = "line111"
    /\ LET r == resample_to_target(fnArgs.iq_len, fnArgs.orig_sr, fnArgs.target_sr)
       IN  \E iq_resampled \in [1..r.len -> ComplexSamples] :
               fnResult' = [fnResult EXCEPT
                               !.pc = "line112",
                               !.stages = Append(@, "resample_to_target"),
                               !.up = r.up, !.down = r.down, !.sr = r.sr,
                               !.value = iq_resampled]
    /\ PreprocessUnchanged

\* line 112: iq_mag = iq_to_envelope(iq_resampled)
PreprocessEnvelope ==
    /\ fnResult.pc = "line112"
    /\ fnResult' = [fnResult EXCEPT
                       !.pc = "line114",
                       !.stages = Append(@, "iq_to_envelope"),
                       !.value = iq_to_envelope(@)]
    /\ PreprocessUnchanged

\* line 114: iq_mag = trim_iq_around_peak(iq_mag)
PreprocessTrim ==
    /\ fnResult.pc = "line114"
    /\ fnResult' = [fnResult EXCEPT
                       !.pc = "line116",
                       !.stages = Append(@, "trim_iq_around_peak"),
                       !.value = trim_iq_around_peak(@, DefaultHalfWidth)]
    /\ PreprocessUnchanged

\* lines 116-118: samples_per_us = int(round(target_sr / 1e6));
\* iq_mag = shift_to_optimal_phase(iq_mag, samples_per_us)
PreprocessPhase ==
    /\ fnResult.pc = "line116"
    /\ LET spu == RoundMHz(fnArgs.target_sr)
       IN  fnResult' = [fnResult EXCEPT
                           !.pc = "line120",
                           !.stages = Append(@, "shift_to_optimal_phase"),
                           !.samples_per_us = spu,
                           !.aligned = shift_to_optimal_phase(fnResult.value, spu),
                           !.value = shift_to_optimal_phase(@, spu)]
    /\ PreprocessUnchanged

\* line 120: return iq_mag
PreprocessReturn ==
    /\ fnResult.pc = "line120"
    /\ fnResult' = [fnResult EXCEPT !.pc = "returned"]
    /\ PreprocessUnchanged

PreprocessNext ==
    \/ PreprocessResample
    \/ PreprocessEnvelope
    \/ PreprocessTrim
    \/ PreprocessPhase
    \/ PreprocessReturn

PreprocessSpec == PreprocessInit /\ [][PreprocessNext]_vars

(* ------------- signal_processing.get_frequency_space_np ---------------- *)
\* A frequency is the exact fraction num / den, den > 0.
Rat(n, d) == [num |-> n, den |-> d]
RatEq(a, b) == a.num * b.den = b.num * a.den
RatLess(a, b) == a.num * b.den < b.num * a.den
RatSub(a, b) == Rat(a.num * b.den - b.num * a.den, a.den * b.den)

\* np.linspace(start, stop, num, endpoint=False): num values start + i * step
\* with step = (stop - start) / num, the last one short of stop
linspace_no_endpoint(start, stop, num) ==
    [i \in 1..num |->
        Rat(start.num * stop.den * num
              + (i - 1) * (stop.num * start.den - start.num * stop.den),
            start.den * stop.den * num)]

\* np.linspace(start, stop, num): num values start + i * step with
\* step = (stop - start) / (num - 1); a single value is start
linspace(start, stop, num) ==
    LET div == num - 1
    IN  [i \in 1..num |->
            IF div > 0
            THEN Rat(start.num * stop.den * div
                       + (i - 1) * (stop.num * start.den - start.num * stop.den),
                     start.den * stop.den * div)
            ELSE start]

\* centre frequencies and sample rates, in MHz
CenterFreqs == {100, 1090}
SampleRates == {2, 3}

\* a call get_frequency_space_np(s, center_freq, sample_rate) about to be
\* made on a row s of n samples
FreqInit ==
    /\ InitStreamer
    /\ fnArgs \in [n : 1..MaxRowLen, center_freq : CenterFreqs, sample_rate : SampleRates]
    /\ fnResult = [returned |-> FALSE, freqs |-> <<>>, s_fft |-> <<>>,
                   s_mag_fft |-> <<>>, s_angle_fft |-> <<>>]

\* lines 20-34: the windowed row has s.shape[0] samples and so has its
\* transform, whose values are any complex numbers; magnitude and angle are
\* taken element by element; the axis is the linspace of lines 30-32
GetFrequencySpaceNp ==
    /\ ~fnResult.returned
    /\ \E s_fft \in [1..fnArgs.n -> ComplexSamples] :
          fnResult' =
            [returned    |-> TRUE,
             freqs       |-> linspace(Rat(2 * fnArgs.center_freq - fnArgs.sample_rate, 2),
                                      Rat(2 * fnArgs.center_freq + fnArgs.sample_rate, 2),
                                      fnArgs.n),
             s_fft       |-> s_fft,
             s_mag_fft   |-> [i \in 1..fnArgs.n |-> s_fft[i].mag],
             s_angle_fft |-> [i \in 1..fnArgs.n |-> s_fft[i].arg]]
    /\ UNCHANGED <<fnArgs, streamerVars, sdrStore, arrays, devs, threads,
                   callerVars, consumerVars, uiVars>>

FreqNext == GetFrequencySpaceNp

FreqSpec == FreqInit /\ [][FreqNext]_vars

(* ---------------- app.stream_signal: the y-axis maximum ----------------- *)
\* Magnitudes are whole numbers; the stored maximum is counted in tenths, so
\* that 1.1 times a magnitude is exact.
\* app.py line 427: dcc.Store(id="y-axis-max", data=1.0)
InitialYAxisMax == 10

\* a callback that always stores the new maximum with headroom
next_y_max_always(candidate_new_y_max, y_axis_max) == 11 * candidate_new_y_max

\* lines 618-624: candidate * 1.1 when the candidate exceeds the stored
\* maximum, else the stored maximum
next_y_max(candidate_new_y_max, y_axis_max) ==
    IF 10 * candidate_new_y_max > y_axis_max
    THEN 11 * candidate_new_y_max
    ELSE y_axis_max

\* the page as served: the store holds 1.0 and the timer has not fired
RatchetInit ==
    /\ InitStreamer
    /\ fnArgs = [n_intervals |-> 0, is_active |-> FALSE, rows |-> 0,
                 candidate_new_y_max |-> 0, completes |-> TRUE]
    /\ fnResult = [y_axis_max |-> InitialYAxisMax, processed |-> FALSE]

\* one invocation stream_signal(n_intervals, y_axis_max), lines 576-626, with
\* the browser storing what it returns. It returns no_update when the stream
\* is not active or current_signal has no rows; an exception before line 626
\* (completes = FALSE) leaves the store as it was; otherwise the store
\* receives next_y_max.
StreamSignal ==
    /\ fnArgs.n_intervals < MaxIntervals
    /\ \E is_active \in BOOLEAN, rows \in 0..1, cand \in 0..MaxMag, completes \in BOOLEAN :
          LET processes == is_active /\ rows > 0 /\ completes
          IN  /\ fnArgs' = [n_intervals |-> fnArgs.n_intervals + 1,
                            is_active |-> is_active, rows |-> rows,
                            candidate_new_y_max |-> cand, completes |-> completes]
              /\ fnResult' =
                    [y_axis_max |-> IF processes
                                    THEN next_y_max(cand, fnResult.y_axis_max)
                                    ELSE fnResult.y_axis_max,
                     processed  |-> processes]
    /\ UNCHANGED <<streamerVars, sdrStore, arrays, devs, threads,
                   callerVars, consumerVars, uiVars>>

RatchetNext == StreamSignal

RatchetSpec == RatchetInit /\ [][RatchetNext]_vars

\* a stop_stream call reaches line 98 (self.enabled = False) in this step
StopCalled == StopStreamSignal

\* self.current_signal is an array of size > 0
NonEmptySignal == Len(arrays[current_signal]) > 0

\* C12: after start_stream on an Idle streamer, enabled is True and thread
\* is not None from the return of start_stream until stop_stream is called;
\* unless the device fails or stop_stream is called first, the stream started
\* on the fresh streamer eventually publishes a batch; and once current_signal is a non-empty array it
\* stays one.
C12_RunningUntilStopped ==
    /\ [][(thread = 0 /\ StartCall) =>
             (enabled' /\ thread' # 0)]_vars
    /\ [][(thread # 0 /\ enabled /\ ~StopCalled) =>
             (enabled' /\ thread' # 0)]_vars
    /\ [][NonEmptySignal => NonEmptySignal']_vars
    /\ (thread = 1 /\ enabled) ~>
          \/ ~enabled
          \/ threads[1].pc = "failed"
          \/ (read_is_available /\ NonEmptySignal)

\* C12 witness: the first stream runs and has published a batch
C12_Witness ==
    /\ Len(threads) = 1 /\ thread = 1 /\ enabled
    /\ read_is_available /\ Complete(arrays[current_signal])

\* a stop_stream call is made in this step
StopCall == StopStreamIdle \/ StopStreamSignal

\* C13: stop_stream on an Idle streamer is a no-op with a warning: the
\* streamer's fields, the threads, the devices and the arrays are unchanged,
\* the call returns at once and nothing is raised.
C13_StopOnIdleIsNoOp ==
    [][(thread = 0 /\ StopCall) =>
          /\ UNCHANGED <<streamerVars, sdrStore, arrays, devs, threads>>
          /\ callerPc' = "idle"
          /\ callResult' = "warning"]_vars

\* C13 witness: stop_stream has returned with a warning on an idle streamer
\* that had streamed before
C13_Witness ==
    /\ thread = 0 /\ callerPc = "idle" /\ callResult = "warning"
    /\ Len(threads) = 1 /\ ~active

\* C14: get_current_signal called when no batch has ever been published (no
\* stream was ever started) returns, and the array it returns has size 0.
C14_EmptyWhenNothingPublished ==
    (cPc = "spin" /\ Len(threads) = 0) ~>
        (cPc = "idle" /\ cRef # 0 /\ Len(arrays[cRef]) = 0)

\* some acquisition loop is inside the for loop of lines 159-162
FillInProgress == \E t \in ThreadIds : threads[t].pc = "read"

\* C15: get_current_signal returns the current signal if it is available and,
\* if a batch fill is in progress at the time of the call, returns an empty
\* array.  The caller keeps no state between polls, so a pending call in a
\* state with a fill in progress and the flag down is a call made in that
\* state.
C15_EmptyWhileReadInProgress ==
    /\ [][GetCurrentSignalReturn => cRef' = current_signal]_vars
    /\ (cPc = "spin" /\ FillInProgress /\ ~read_is_available) ~>
          (cPc = "idle" /\ cRef # 0 /\ Len(arrays[cRef]) = 0)

\* thread t moves to program point p in this step
Enters(t, p) == threads[t].pc # p /\ threads'[t].pc = p

\* C16: cancellation is batch-granular.  A loop begins a batch fill only
\* from the check of line 155 having seen enabled True, and leaves the loop
\* normally only from that check having seen it False; a fill that has begun
\* has made all n_reads_per_acquisition reads when the loop is back at the
\* check or has left it; enabled stays False while stop_stream waits in
\* join(), so the loop begins no fill after its next check; and stop_stream
\* returns.
C16_BatchGranularCancellation ==
    /\ [][\A t \in ThreadIds :
            /\ Enters(t, "clear") => (threads[t].pc = "while" /\ enabled)
            /\ Enters(t, "finally_ok") => (threads[t].pc = "while" /\ ~enabled)
         ]_vars
    /\ [](\A t \in ThreadIds :
            (threads[t].pc \in {"while", "finally_ok", "done"} /\ threads[t].fills > 0)
                => threads[t].i = threads[t].n)
    /\ [](callerPc = "joining" => ~enabled)
    /\ (callerPc = "joining") ~> (callerPc = "idle" /\ thread = 0)

\* C16 witness: stop_stream waits in join(); the loop has made both reads of
\* its batch, published it, and left at its next check
C16_Witness ==
    /\ callerPc = "joining" /\ thread = 1 /\ Len(threads) = 1
    /\ threads[1].pc = "finally_ok"
    /\ threads[1].n = 2 /\ threads[1].i = 2 /\ threads[1].fills = 1
    /\ read_is_available

\* thread t is between the first and the last row write of a batch fill
MidFill(t) ==
    threads[t].pc = "read" /\ 0 < threads[t].i /\ threads[t].i < threads[t].n

\* C17: the availability flag follows the publish protocol in every
\* reachable state: read_is_available is False whenever any loop is between
\* the first and the last row write of a batch fill, and it becomes True
\* only when the loop that sets it has written all rows of its batch.
C17_PublishProtocol ==
    /\ [](\A t \in ThreadIds : MidFill(t) => ~read_is_available)
    /\ [][(~read_is_available /\ read_is_available') =>
            \E t \in ThreadIds :
                /\ Enters(t, "while")
                /\ threads[t].i = threads[t].n]_vars

\* C18: after the device is configured its first read, the padding read, is
\* discarded: a loop that has left get_sdr has already read once from its
\* handle, and no row stored into any batch comes from the first
\* read_samples call made on a newly opened device.
C18_PaddingReadDiscarded ==
    /\ \A t \in ThreadIds :
          threads[t].pc \in {"pad", "while", "clear", "read"} =>
              devs[threads[t].sdr].reads >= 1
    /\ \A a \in 1..Len(arrays) : \A i \in 1..Len(arrays[a]) :
          arrays[a][i].t # 0 => arrays[a][i].k > 1

\* C18 witness: a published batch whose first row is the third read of its
\* device, after the two padding reads
C18_Witness ==
    /\ read_is_available /\ NonEmptySignal
    /\ arrays[current_signal][1].t # 0
    /\ arrays[current_signal][1].k = 3

\* the 0-based indices at which a holds its maximum
MaxIndices(a) == {i \in 0..(Len(a) - 1) : \A j \in 1..Len(a) : a[j] <= a[i + 1]}

\* the lowest of a non-empty set of indices
Lowest(S) == CHOOSE i \in S : \A j \in S : i <= j

Min2(x, y) == IF x <= y THEN x ELSE y
Max2(x, y) == IF x >= y THEN x ELSE y

\* C19: trim_iq_around_peak(magnitude, halfWidth) returns exactly the
\* elements at indices max(0, idx-halfWidth) up to min(len, idx+halfWidth)
\* (exclusive), idx being the index of the maximum; when the maximum lies
\* within halfWidth of the start the window starts at index 0, contains the
\* peak and is shorter than 2*halfWidth.
C19_TrimWindowClamped ==
    fnResult.returned =>
        LET a   == fnArgs.iq_mag
            hw  == fnArgs.n_either_side
            idx == Lowest(MaxIndices(a))
            lo  == Max2(0, idx - hw)
            hi  == Min2(Len(a), idx + hw)
        IN  /\ fnResult.value = SubSeq(a, lo + 1, hi)
            /\ idx < hw =>
                  /\ Len(fnResult.value) < 2 * hw
                  /\ Len(fnResult.value) > idx
                  /\ fnResult.value[idx + 1] = a[idx + 1]

ElementsRemoved == Len(fnArgs.iq_mag) - Len(fnResult.value)

\* the offset the returned envelope starts at: the selected phase, and 0
\* when the loop selected none
EffectivePhase ==
    IF fnResult.max_score_phase = None THEN 0 ELSE fnResult.max_score_phase

\* C21: for every input and every samplesPerUnit >= 1 (inputs too short to
\* form two blocks included) the envelope shift_to_optimal_phase returns
\* starts at an integer phase p with 0 <= p < samplesPerUnit: it is exactly
\* the input without its first p elements.
C21_PhaseInRange ==
    fnResult.returned =>
        /\ EffectivePhase \in 0..(fnArgs.samples_per_us - 1)
        /\ fnResult.value =
              SubSeq(fnArgs.iq_mag, EffectivePhase + 1, Len(fnArgs.iq_mag))

\* C21 witness: an input too short to form two blocks, returned whole
C21_Witness ==
    /\ fnResult.returned
    /\ Len(fnArgs.iq_mag) <= fnArgs.samples_per_us
    /\ fnArgs.samples_per_us >= 2
    /\ ElementsRemoved = 0

\* C22: shift_to_optimal_phase scores every one of the samplesPerUnit
\* candidate offsets 0..samplesPerUnit-1, so that any of them, the last one
\* included, can be selected.
C22_EveryPhaseScored ==
    fnResult.returned => fnResult.scores = 0..(fnArgs.samples_per_us - 1)

RECURSIVE BestFromPhaseZero(_, _, _)
\* the scan the claim describes: best starts as (score of phase 0, phase 0),
\* and a later phase replaces it only with a score above 1.01 times the best
BestFromPhaseZero(iq_mag, steps, upto) ==
    IF upto <= 0
    THEN [score |-> PhaseScore(iq_mag, steps, 0), phase |-> 0]
    ELSE LET best  == BestFromPhaseZero(iq_mag, steps, upto - 1)
             score == PhaseScore(iq_mag, steps, upto)
         IN  IF /\ ~best.score.nan
                /\ ~score.nan
                /\ 100 * score.num * best.score.den
                      > 101 * best.score.num * score.den
             THEN [score |-> score, phase |-> upto]
             ELSE best

\* C23: the phase the returned envelope starts at is the one a
\* left-to-right scan over the scored phases produces that starts with
\* best = (score of phase 0, phase 0) and replaces best only by a later phase
\* whose score is strictly greater than 1.01 times the best score.
C23_HysteresisScan ==
    fnResult.returned =>
        EffectivePhase =
            BestFromPhaseZero(fnArgs.iq_mag, fnArgs.samples_per_us,
                              fnArgs.samples_per_us - 2).phase

\* C23 witness: phase 1 scores above phase 0, but by less than 1%, and
\* phase 0 is kept
C23_Witness ==
    /\ fnResult.returned
    /\ fnArgs.samples_per_us = 3
    /\ fnResult.max_score_phase = 0
    /\ ExceedsAtAll(PhaseScore(fnArgs.iq_mag, 3, 1), PhaseScore(fnArgs.iq_mag, 3, 0))
    /\ ~PhaseScore(fnArgs.iq_mag, 3, 0).nan

\* c * m, element by element
Scaled(m, c) == [i \in 1..Len(m) |-> c * m[i]]

\* C24: the phase selected is invariant under positive scaling: the phase
\* selected for c*m equals the phase selected for m, for every c > 0.
C24_ScaleInvariant ==
    fnResult.returned =>
        \A c \in 1..MaxScale :
            SelectedPhase(Scaled(fnArgs.iq_mag, c), fnArgs.samples_per_us)
                = fnResult.max_score_phase

\* C24 witness: a later phase replaced phase 0, and a scaled copy of the
\* input differs from the input
C24_Witness ==
    /\ fnResult.returned
    /\ fnResult.max_score_phase >= 1
    /\ Scaled(fnArgs.iq_mag, MaxScale) # fnArgs.iq_mag

\* ceil(2n / spu), i.e. ceil(n / (spu / 2))
CeilWindows(n, spu) == (2 * n + spu - 1) \div spu

\* C25: for every input length n >= 1 and every integer samplesPerUnit >= 1,
\* even or odd, downsample_to_buckets returns exactly
\* ceil(n / (samplesPerUnit/2)) values, each the mean of its window of
\* consecutive samples, a short final window being averaged over the samples
\* it contains.
C25_BucketCount ==
    fnResult.returned =>
        /\ Len(fnResult.value) =
              CeilWindows(Len(fnArgs.iq_mag), fnArgs.samples_per_us)
        /\ \A b \in 1..Len(fnResult.value) :
              LET w == fnResult.value[b]
              IN  w.sum = SumSeq(fnArgs.iq_mag, w.first, w.first + w.count - 1)

\* C26: resample_to_target returns as its rate the achieved rate
\* originalRate * up / down, up/down being the reduced bounded-denominator
\* fraction it resampled with, also where up/down differs from
\* targetRate/originalRate; and preprocess_iq derives samples-per-unit from
\* that returned achieved rate.
C26_AchievedRateReturned ==
    /\ fnResult.pc # "line111" =>
          fnResult.sr * fnResult.down = fnArgs.orig_sr * fnResult.up
    /\ fnResult.pc = "returned" =>
          fnResult.samples_per_us = RoundMHz(fnResult.sr)

\* the stages of the offline pipeline, in order
PipelineStages ==
    <<"resample_to_target", "iq_to_envelope", "trim_iq_around_peak",
      "shift_to_optimal_phase", "downsample_to_buckets">>

\* C28: preprocess_iq applies Resampler, EnvelopeExtractor, PeakTrimmer,
\* PhaseAligner and BucketDownsampler in that order, each on the previous
\* stage's output, and its result is the bucketed pulse train: one value per
\* window of samplesPerUnit/2 samples of the aligned envelope.
C28_PipelineOrder ==
    fnResult.pc = "returned" =>
        /\ fnResult.stages = PipelineStages
        /\ fnResult.value =
              downsample_to_buckets(fnResult.aligned, fnResult.samples_per_us)

\* the four outputs have the length of the row
FourOutputsOfLengthN ==
    /\ Len(fnResult.freqs) = fnArgs.n
    /\ Len(fnResult.s_fft) = fnArgs.n
    /\ Len(fnResult.s_mag_fft) = fnArgs.n
    /\ Len(fnResult.s_angle_fft) = fnArgs.n

LowEdge == Rat(2 * fnArgs.center_freq - fnArgs.sample_rate, 2)
HighEdge == Rat(2 * fnArgs.center_freq + fnArgs.sample_rate, 2)

\* the axis rises by the same positive step from each value to the next
EqualRisingSteps ==
    \A i \in 1..(Len(fnResult.freqs) - 1) :
        /\ RatLess(fnResult.freqs[i], fnResult.freqs[i + 1])
        /\ RatEq(RatSub(fnResult.freqs[i + 1], fnResult.freqs[i]),
                 RatSub(fnResult.freqs[2], fnResult.freqs[1]))

\* C27 (as stated): for every row of length N >= 1 the four outputs have
\* length N, frequency[0] = centerFreq - sampleRate/2,
\* frequency[N-1] = centerFreq + sampleRate/2, and the axis is strictly
\* increasing in equal steps.
C27_AxisEndpoints ==
    fnResult.returned =>
        /\ FourOutputsOfLengthN
        /\ RatEq(fnResult.freqs[1], LowEdge)
        /\ RatEq(fnResult.freqs[fnArgs.n], HighEdge)
        /\ EqualRisingSteps

\* C27 (amended): the four outputs have length N and frequency[0] =
\* centerFreq - sampleRate/2; for N >= 2, frequency[N-1] =
\* centerFreq + sampleRate/2 and the axis is strictly increasing in equal
\* steps; for N = 1 the axis is the single value centerFreq - sampleRate/2.
C27_AxisEndpointsFromTwo ==
    fnResult.returned =>
        /\ FourOutputsOfLengthN
        /\ RatEq(fnResult.freqs[1], LowEdge)
        /\ fnArgs.n >= 2 =>
              /\ RatEq(fnResult.freqs[fnArgs.n], HighEdge)
              /\ EqualRisingSteps

C27_Witness ==
    /\ fnResult.returned
    /\ fnArgs.n >= 3
    /\ RatEq(fnResult.freqs[fnArgs.n], HighEdge)

\* C29: across any sequence of stream_signal invocations the stored y-axis
\* maximum never decreases, and after each invocation that processed a batch
\* it is at least the largest magnitude in that batch: raised to 1.1 times
\* the new maximum when the batch exceeds it, otherwise retained.
C29_RatchetNeverDecreases ==
    [][/\ fnResult'.y_axis_max >= fnResult.y_axis_max
       /\ fnResult'.processed =>
             /\ fnResult'.y_axis_max >= 10 * fnArgs'.candidate_new_y_max
             /\ fnResult'.y_axis_max =
                   IF 10 * fnArgs'.candidate_new_y_max > fnResult.y_axis_max
                   THEN 11 * fnArgs'.candidate_new_y_max
                   ELSE fnResult.y_axis_max]_vars

\* a batch was processed after the maximum had been raised, and the raised
\* maximum was retained
C29_Witness ==
    /\ fnResult.processed
    /\ fnResult.y_axis_max > InitialYAxisMax
    /\ 11 * fnArgs.candidate_new_y_max < fnResult.y_axis_max

\* C30: whenever read_is_available is True, current_signal holds a batch
\* every row of which was read from the device by a completed fill of the
\* currently configured stream; after stop_stream and a new start_stream a
\* consumer cannot obtain the preallocated all-zero buffer, or a batch of the
\* previous stream, as an available batch.
C30_AvailableBatchIsCurrent ==
    read_is_available =>
        /\ Complete(arrays[current_signal])
        /\ thread # 0 => \A i \in 1..Len(arrays[current_signal]) :
                            arrays[current_signal][i].t = thread

\* C31: every device handle is closed at most once and is never read from
\* after it has been closed, across any sequence of start_stream/stop_stream
\* calls: the handle get_sdr closes through sdrStore.sdr is never one that an
\* acquisition loop has already closed or is still reading from.
C31_ClosedOnceNeverReadAfter ==
    [][\A h \in DevIds :
          /\ devs'[h].closes > devs[h].closes => devs[h].open
          /\ devs'[h].reads > devs[h].reads => devs[h].open
          /\ (\E t \in ThreadIds : threads[t].pc = "gs_close" /\ threads'[t].pc = "gs_clear"
                                     /\ sdrStore = h) =>
                ~\E u \in ThreadIds : Alive(u) /\ threads[u].sdr = h]_vars

\* some acquisition loop has run line 165 at least once: it is past its
\* first fill, or has begun a second one
EverPublished ==
    \E t \in ThreadIds :
        \/ threads[t].fills >= 2
        \/ threads[t].fills = 1 /\ threads[t].pc \in {"while", "finally_ok", "done"}

\* C32: once at least one batch has been published, every call to
\* get_current_signal eventually returns, including calls made after the
\* acquisition loop has exited by normal stop or by a device read error in
\* the middle of a later batch fill.
C32_CallReturnsOncePublished ==
    (cPc = "spin" /\ EverPublished) ~> (cPc = "idle")

\* stop_stream has set enabled False and waits in join() for loop t, which
\* has begun no fill and is not past its first check of line 155
StopBeforeFirstCheck(t) ==
    /\ t \in ThreadIds
    /\ callerPc = "joining" /\ thread = t
    /\ threads[t].fills = 0
    /\ threads[t].pc \in {"gs_check", "gs_close", "gs_clear", "gs_open",
                          "gs_init", "pad", "while"}

\* loop t has ended without a batch and the handle it opened, if any, is
\* closed
ExitedWithoutBatch(t) ==
    /\ t \in ThreadIds
    /\ Exited(t)
    /\ threads[t].fills = 0
    /\ threads[t].sdr # 0 => ~devs[threads[t].sdr].open

\* C33: a stop request is never lost.  No step of an acquisition loop
\* changes enabled; once False, enabled becomes True only by a start_stream
\* call; and a stop_stream issued before the loop's first check of enabled
\* makes the loop exit without acquiring any batch and with the device
\* closed.
C33_StopNeverLost ==
    /\ [][(\E t \in ThreadIds : ThreadStep(t)) => enabled' = enabled]_vars
    /\ [][(~enabled /\ enabled') => StartCall]_vars
    /\ \A t \in 1..MaxThreads :
          StopBeforeFirstCheck(t) ~> ExitedWithoutBatch(t)

====
